---- MODULE Spec2Model ----
(***************************************************************************)
(* Model of the px4esc firmware fragments:                                 *)
(*   - foc::BeepingTask (diagnostic tone generator), board.cpp:308-380     *)
(*   - foc::CompleteParameterSet::isValid, common.hpp:51-63                *)
(*   - board::tryReadDeviceSignature, board.cpp:188-199                    *)
(*   - foc::EventCounter and the unit conversions, common.hpp:96-179       *)
(*   - board::init, initLEDPWM, die and boardInit, board.cpp:93-270        *)
(*                                                                         *)
(* Time is counted in ticks of 1/15000 s (the shortest excitation period   *)
(* the frequency limits allow), so that the periods of the sampled         *)
(* frequencies are whole numbers.  Scalar arithmetic is exact: the         *)
(* rounding of the 32-bit float type is not modelled.                      *)
(***************************************************************************)
EXTENDS Integers, Sequences, FiniteSets, TLC

VARIABLES
    context_,                   \* const TaskContext context_ (board.pwm.period)
    excitation_period_,         \* Const excitation_period_
    remaining_duration_,        \* Scalar remaining_duration_
    time_to_next_excitation_,   \* Scalar time_to_next_excitation_
    next_phase_index_,          \* unsigned next_phase_index_, as <<high half, low half>>
    frequency,                  \* constructor argument
    duration,                   \* constructor argument
    last_call,                  \* "ctor", "pwm" or "irq": the entry point that ran last
    calls,                      \* number of onNextPWMPeriod calls made so far
    pulses,                     \* number of those calls that emitted a pulse
    pulsed,                     \* whether the last onNextPWMPeriod took the pulse branch
    last_phase,                 \* phase of the latest pulse emitted (-1: none yet)
    prev_phase,                 \* phase of the pulse before that (-1: none yet)
    output,                     \* Vector<3> returned by the last onNextPWMPeriod
    driver_active,              \* bool returned by the last onNextPWMPeriod
    result,                     \* Result returned by the last onMainIRQ
    hw_status,                  \* hw_status argument of the last onMainIRQ
    main_period,                \* period argument of the last onMainIRQ
    earlier,                    \* kinds of Result returned by the onMainIRQ calls before the last
    since_success,              \* onNextPWMPeriod calls made since onMainIRQ first returned
                                \* success, counted up to 2 (-1: no success yet)
    pulse_call,                 \* number of the call that emitted the latest pulse (0: none yet)
    prev_pulse_call,            \* number of the call that emitted the pulse before that
    params,                     \* a CompleteParameterSet: validity of each group
    valid_res,                  \* <<value returned by the last isValid()>>, <<>> before it
    DeviceSignatureStorage,     \* linker-provided signature region
    out_sign,                   \* DeviceSignature& out_sign
    sign_res,                   \* <<value returned by the last tryReadDeviceSignature>>
    cnt_,                       \* std::uint64_t cnt_ of an EventCounter, as four 16-bit limbs
    increments,                 \* number of increment() calls made so far
    counter_call,               \* "none", "increment", "get" or "toString"
    get_res,                    \* <<value returned by the last get()>>
    str_res,                    \* <<digits returned by the last toString()>>
    ndebug,                     \* whether the build strips assert() (NDEBUG)
    conv_arg,                   \* Scalar argument of the conversion called
    num_poles,                  \* unsigned num_poles argument
    conv_call,                  \* the conversion function called last ("none": none yet)
    conv_ret,                   \* <<outcome of that call>>
    conv_back,                  \* <<outcome of the opposite conversion applied to its value>>
    boot_pc,                    \* the statement the boot sequence is at: [fn, at]
    cs_depth,                   \* number of os::CriticalSectionLocker objects alive
    boot_trace,                 \* the statements executed so far, each with whether a
                                \* critical section was held when it ran
    periph,                     \* peripheral registers: register name -> set of bits set
    wdt,                        \* os::watchdog::Timer wdt and the watchdog subsystem
    watchdog_timeout_msec,      \* unsigned watchdog_timeout_msec argument of init
    config_result,              \* the value os::config::init() is going to return
    config_init_res,            \* <<const int config_init_res>>, <<>> before it is set
    init_res,                   \* <<Timer returned by init>>, <<>> while it has not returned
    die_reason                  \* <<int reason argument of die>>, <<>> while not called

taskVars == <<context_, excitation_period_, remaining_duration_,
              time_to_next_excitation_, next_phase_index_, frequency, duration,
              last_call, calls, pulses, pulsed, last_phase, prev_phase, output,
              driver_active, result, hw_status, main_period, earlier,
              since_success, pulse_call, prev_pulse_call>>

boardVars == <<params, valid_res, DeviceSignatureStorage, out_sign, sign_res>>

counterVars == <<cnt_, increments, counter_call, get_res, str_res>>

convVars == <<ndebug, conv_arg, num_poles, conv_call, conv_ret, conv_back>>

bootVars == <<boot_pc, cs_depth, boot_trace, periph, wdt, watchdog_timeout_msec,
              config_result, config_init_res, init_res, die_reason>>

utilVars == <<counterVars, convVars, bootVars>>

vars == <<taskVars, boardVars, utilVars>>

(***************************************************************************)
(* Bounds of the exploration.                                              *)
(***************************************************************************)
MaxCalls == 40          \* onNextPWMPeriod calls explored per task
SignatureSize == 3      \* bytes of the signature region explored
MaxIncrements == 12     \* increment() calls explored per EventCounter

(***************************************************************************)
(* Program constants.                                                      *)
(***************************************************************************)
MinFrequencyHz == 100           \* FrequencyLimits{100.0F, 15000.0F}
MaxFrequencyHz == 15000
MaxDurationSec == 3             \* DurationLimits{0, 3.0F}
ExitCodeBadHardwareStatus == 1
UnsignedBits == 32              \* width of unsigned on the target
UInt64Bits == 64                \* std::uint64_t

TicksPerSecond == MaxFrequencyHz

FrequencyLimits == [min |-> MinFrequencyHz, max |-> MaxFrequencyHz]
DurationLimits == [min |-> 0, max |-> MaxDurationSec * TicksPerSecond]

(***************************************************************************)
(* Sampled inputs.  Frequencies are in Hz, durations and periods in ticks. *)
(***************************************************************************)
FrequencyInputs == {50, 100, 1000, 15000, 30000}
DurationInputs == {-15000, 0, 20, 100, 300, 45000, 60000}
PWMPeriods == {1, 4, 5, 50, 75, 22500}
MainPeriods == {15, 150}
InverterVoltages == {0, 12}
PhaseCurrents == {<<0, 0>>, <<1, -1>>}

(***************************************************************************)
(* math::Range<>::constrain                                                *)
(***************************************************************************)
Constrain(range, x) ==
    IF x < range.min THEN range.min
    ELSE IF x > range.max THEN range.max
    ELSE x

(***************************************************************************)
(* Result::failure / Result::success / Result::inProgress                  *)
(***************************************************************************)
ResultFailure(code) == [kind |-> "failure", exit_code |-> code]
ResultSuccess == [kind |-> "success", exit_code |-> 0]
ResultInProgress == [kind |-> "in_progress", exit_code |-> 0]
NoResult == [kind |-> "none", exit_code |-> 0]

(***************************************************************************)
(* unsigned arithmetic.  A value v is kept as <<v \div 2^16, v % 2^16>>.   *)
(***************************************************************************)
UIntLimb == 2 ^ (UnsignedBits \div 2)

UIntZero == <<0, 0>>

\* slip: the increment is lost
UIntIncrement_Lost(x) == x

\* x++ on an unsigned: wraps modulo 2^UnsignedBits
UIntIncrement(x) ==
    IF x[2] + 1 < UIntLimb
    THEN <<x[1], x[2] + 1>>
    ELSE <<(x[1] + 1) % UIntLimb, 0>>

\* x % 3 on an unsigned
UIntMod3(x) == (((x[1] % 3) * (UIntLimb % 3)) + (x[2] % 3)) % 3

(***************************************************************************)
(* Vector<3>                                                               *)
(***************************************************************************)
Vector3Zero == [i \in 0..2 |-> 0]

\* Vector<3> output = Zero(); output[index % 3] = 1.0F;
PhaseOutput(index) == [i \in 0..2 |-> IF i = UIntMod3(index) THEN 1 ELSE 0]

(***************************************************************************)
(* BeepingTask::BeepingTask                                                *)
(***************************************************************************)
\* slip: the frequency is used unclamped
ExcitationPeriodOf_Unclamped(f) == TicksPerSecond \div f

ExcitationPeriodOf(f) == TicksPerSecond \div Constrain(FrequencyLimits, f)

InitialDurationOf(d) == Constrain(DurationLimits, d)

TaskState(pwm_period, f, d, index) ==
    /\ context_ = [board |-> [pwm |-> [period |-> pwm_period]]]
    /\ excitation_period_ = ExcitationPeriodOf(f)
    /\ remaining_duration_ = InitialDurationOf(d)
    /\ time_to_next_excitation_ = excitation_period_
    /\ next_phase_index_ = index
    /\ frequency = f
    /\ duration = d
    /\ last_call = "ctor"
    /\ calls = 0
    /\ pulses = 0
    /\ pulsed = FALSE
    /\ last_phase = -1
    /\ prev_phase = -1
    /\ output = Vector3Zero
    /\ driver_active = FALSE
    /\ result = NoResult
    /\ hw_status = [power_ok |-> TRUE]
    /\ main_period = 0
    /\ earlier = {}
    /\ since_success = -1
    /\ pulse_call = 0
    /\ prev_pulse_call = 0

\* unsigned next_phase_index_ = 0
BeepingTask(pwm_period, f, d) == TaskState(pwm_period, f, d, UIntZero)

(***************************************************************************)
(* BeepingTask::onMainIRQ                                                  *)
(***************************************************************************)
\* slip: the duration is tested before the hardware status
MainIRQResult_DurationFirst(status, remaining) ==
    IF remaining <= 0 THEN ResultSuccess
    ELSE IF ~status.power_ok THEN ResultFailure(ExitCodeBadHardwareStatus)
    ELSE ResultInProgress

\* slip: success only once the remaining duration is strictly negative
MainIRQResult_StrictlyNegative(status, remaining) ==
    IF ~status.power_ok THEN ResultFailure(ExitCodeBadHardwareStatus)
    ELSE IF remaining < 0 THEN ResultSuccess
    ELSE ResultInProgress

MainIRQResult(status, remaining) ==
    IF ~status.power_ok THEN ResultFailure(ExitCodeBadHardwareStatus)
    ELSE IF remaining <= 0 THEN ResultSuccess
    ELSE ResultInProgress

\* slip: the slow path also counts the duration down, by its own period
OnMainIRQ_Decrementing ==
    \E period \in MainPeriods, power_ok \in BOOLEAN :
        /\ result' = MainIRQResult([power_ok |-> power_ok], remaining_duration_)
        /\ remaining_duration_' = remaining_duration_ - period
        /\ hw_status' = [power_ok |-> power_ok]
        /\ main_period' = period
        /\ earlier' = earlier \cup ({result.kind} \ {"none"})
        /\ last_call' = "irq"
        /\ since_success' = IF since_success < 0 /\ result'.kind = "success"
                            THEN 0 ELSE since_success
        /\ UNCHANGED <<context_, excitation_period_,
                       time_to_next_excitation_, next_phase_index_, frequency,
                       duration, calls, pulses, pulsed, last_phase, prev_phase,
                       output, driver_active, pulse_call, prev_pulse_call>>
        /\ UNCHANGED <<boardVars, utilVars>>

OnMainIRQ ==
    \E period \in MainPeriods, power_ok \in BOOLEAN :
        /\ result' = MainIRQResult([power_ok |-> power_ok], remaining_duration_)
        /\ hw_status' = [power_ok |-> power_ok]
        /\ main_period' = period
        /\ earlier' = earlier \cup ({result.kind} \ {"none"})
        /\ last_call' = "irq"
        /\ since_success' = IF since_success < 0 /\ result'.kind = "success"
                            THEN 0 ELSE since_success
        /\ UNCHANGED <<context_, excitation_period_, remaining_duration_,
                       time_to_next_excitation_, next_phase_index_, frequency,
                       duration, calls, pulses, pulsed, last_phase, prev_phase,
                       output, driver_active, pulse_call, prev_pulse_call>>
        /\ UNCHANGED <<boardVars, utilVars>>

(***************************************************************************)
(* BeepingTask::onNextPWMPeriod                                            *)
(***************************************************************************)
\* slip: a period of slack after the duration has run out
StillBeeping_Slack(remaining) == remaining >= -1

\* if (remaining_duration_ >= 0)
StillBeeping(remaining) == remaining >= 0

\* slip: += in place of -=
Elapse_Added(t, period) == t + period

\* remaining_duration_ -= period; time_to_next_excitation_ -= period;
Elapse(t, period) == t - period

\* slip: < in place of <=
ExcitationDue_Strict(t) == t < 0

\* if (time_to_next_excitation_ <= 0)
ExcitationDue(t) == t <= 0

OnNextPWMPeriod ==
    /\ calls < MaxCalls
    /\ \E phase_currents_ab \in PhaseCurrents, inverter_voltage \in InverterVoltages :
        LET period == context_.board.pwm.period
            countdown == Elapse(time_to_next_excitation_, period)
        IN  IF StillBeeping(remaining_duration_)
            THEN /\ remaining_duration_' = Elapse(remaining_duration_, period)
                 /\ IF ExcitationDue(countdown)
                    THEN /\ time_to_next_excitation_' = countdown + excitation_period_
                         /\ output' = PhaseOutput(next_phase_index_)
                         /\ next_phase_index_' = UIntIncrement(next_phase_index_)
                         /\ pulses' = pulses + 1
                         /\ pulsed' = TRUE
                         /\ last_phase' = UIntMod3(next_phase_index_)
                         /\ prev_phase' = last_phase
                         /\ pulse_call' = calls + 1
                         /\ prev_pulse_call' = pulse_call
                         /\ driver_active' = TRUE
                    ELSE /\ time_to_next_excitation_' = countdown
                         /\ output' = Vector3Zero
                         /\ driver_active' = TRUE
                         /\ pulsed' = FALSE
                         /\ UNCHANGED <<next_phase_index_, pulses, last_phase, prev_phase,
                                        pulse_call, prev_pulse_call>>
            ELSE /\ output' = Vector3Zero
                 /\ driver_active' = FALSE
                 /\ pulsed' = FALSE
                 /\ UNCHANGED <<remaining_duration_, time_to_next_excitation_,
                                next_phase_index_, pulses, last_phase, prev_phase,
                                pulse_call, prev_pulse_call>>
    /\ calls' = calls + 1
    /\ last_call' = "pwm"
    /\ since_success' = IF since_success \in {0, 1} THEN since_success + 1
                        ELSE since_success
    /\ UNCHANGED <<context_, excitation_period_, frequency, duration,
                   result, hw_status, main_period, earlier>>
    /\ UNCHANGED <<boardVars, utilVars>>

(***************************************************************************)
(* CompleteParameterSet::isValid                                           *)
(***************************************************************************)
ParameterSets ==
    [controller : BOOLEAN, motor : BOOLEAN, observer : BOOLEAN, pwm : BOOLEAN]

\* return controller.isValid() && motor.isValid();
IsValid(p) == p.controller /\ p.motor

IsValidCall ==
    /\ valid_res' = <<IsValid(params)>>
    /\ UNCHANGED <<params, DeviceSignatureStorage, out_sign, sign_res>>
    /\ UNCHANGED <<taskVars, utilVars>>

(***************************************************************************)
(* board::tryReadDeviceSignature                                           *)
(***************************************************************************)
ByteSamples == {0, 1, 128, 255}

Signatures == [1..SignatureSize -> ByteSamples]

\* std::memcpy(dst, src, n)
Memcpy(dst, src, n) == [i \in DOMAIN dst |-> IF i <= n THEN src[i] ELSE dst[i]]

\* slip: only the erase value is excluded
IsSignatureByte_ErasedOnly(x) == x # 255

\* if (x != 0xFF && x != 0x00)
IsSignatureByte(x) == x # 255 /\ x # 0

\* for (auto x : out_sign) { if (...) return true; } return false;
RECURSIVE ScanSignature(_, _)
ScanSignature(sign, i) ==
    IF i > Len(sign) THEN FALSE
    ELSE IF IsSignatureByte(sign[i]) THEN TRUE
    ELSE ScanSignature(sign, i + 1)

TryReadDeviceSignature ==
    /\ out_sign' = Memcpy(out_sign, DeviceSignatureStorage, SignatureSize)
    /\ sign_res' = <<ScanSignature(out_sign', 1)>>
    /\ UNCHANGED <<params, valid_res, DeviceSignatureStorage>>
    /\ UNCHANGED <<taskVars, utilVars>>

(***************************************************************************)
(* std::uint64_t arithmetic.  A value is kept as its four 16-bit limbs,    *)
(* most significant first.                                                 *)
(***************************************************************************)
U64Limbs == UInt64Bits \div (UnsignedBits \div 2)

U64Zero == [i \in 1..U64Limbs |-> 0]

\* x + 1 on a std::uint64_t, carrying from limb i upwards; wraps modulo 2^64
RECURSIVE U64Carry(_, _)
U64Carry(x, i) ==
    IF i = 0 THEN x
    ELSE IF x[i] + 1 < UIntLimb THEN [x EXCEPT ![i] = x[i] + 1]
    ELSE U64Carry([x EXCEPT ![i] = 0], i - 1)

U64Increment(x) == U64Carry(x, U64Limbs)

\* <<x \div 10, x % 10>>, by long division from limb i on with remainder r
RECURSIVE U64DivMod10(_, _, _)
U64DivMod10(x, i, r) ==
    IF i > U64Limbs THEN <<x, r>>
    ELSE LET cur == r * UIntLimb + x[i]
         IN  U64DivMod10([x EXCEPT ![i] = cur \div 10], i + 1, cur % 10)

\* os::heapless::intToString: the decimal digits, most significant first
RECURSIVE U64Digits(_)
U64Digits(x) ==
    IF x = U64Zero THEN <<>>
    ELSE LET qr == U64DivMod10(x, 1, 0)
         IN  Append(U64Digits(qr[1]), qr[2])

IntToString(x) == IF x = U64Zero THEN <<0>> ELSE U64Digits(x)

(***************************************************************************)
(* EventCounter                                                            *)
(***************************************************************************)
\* slip: the increment is applied to a copy
EventCounterIncrement_Lost(c) == c

\* void increment() { cnt_++; }
EventCounterIncrement(c) == U64Increment(c)

Increment ==
    /\ increments < MaxIncrements
    /\ cnt_' = EventCounterIncrement(cnt_)
    /\ increments' = increments + 1
    /\ counter_call' = "increment"
    /\ UNCHANGED <<get_res, str_res>>
    /\ UNCHANGED <<taskVars, boardVars, convVars, bootVars>>

\* std::uint64_t get() const { return cnt_; }
Get ==
    /\ get_res' = <<cnt_>>
    /\ counter_call' = "get"
    /\ UNCHANGED <<cnt_, increments, str_res>>
    /\ UNCHANGED <<taskVars, boardVars, convVars, bootVars>>

\* auto toString() const { return os::heapless::intToString(cnt_); }
ToStringCall ==
    /\ str_res' = <<IntToString(cnt_)>>
    /\ counter_call' = "toString"
    /\ UNCHANGED <<cnt_, increments, get_res>>
    /\ UNCHANGED <<taskVars, boardVars, convVars, bootVars>>

\* std::uint64_t cnt_ = 0;
EventCounter ==
    /\ cnt_ = U64Zero
    /\ increments = 0
    /\ counter_call = "none"
    /\ get_res = <<>>
    /\ str_res = <<>>

(***************************************************************************)
(* Scalar values of the unit conversions.  A value is (n / d) * K^k with   *)
(* K = (20.0F * SquareRootOf3) / math::Pi, n and d coprime and d > 0, so   *)
(* that products and quotients with K are exact.                           *)
(***************************************************************************)
RECURSIVE GCD(_, _)
GCD(a, b) == IF b = 0 THEN a ELSE GCD(b, a % b)

Abs(a) == IF a < 0 THEN -a ELSE a

Scalar(n, d, k) ==
    IF n = 0 THEN [n |-> 0, d |-> 1, k |-> 0]
    ELSE LET g == GCD(Abs(n), Abs(d))
             sgn == IF d < 0 THEN -1 ELSE 1
         IN  [n |-> sgn * (n \div g), d |-> sgn * (d \div g), k |-> k]

ScalarZero == Scalar(0, 1, 0)

\* x > 0
ScalarPositive(x) == x.n > 0

\* (20.0F * SquareRootOf3) / (math::Pi * x * Scalar(p)), for x # 0 and p # 0
ConstOverProduct(x, p) == Scalar(x.d, x.n * p, 1 - x.k)

\* x / Scalar(q), for q # 0
ScalarOverUnsigned(x, q) == Scalar(x.n, x.d * q, x.k)

(***************************************************************************)
(* The outcome of a call: whether assert(false) was evaluated, whether the *)
(* call returned (an assertion failure ends the program unless the build   *)
(* strips assertions), and the value of the return statement.              *)
(***************************************************************************)
Returned(v) == [asserted |-> FALSE, returned |-> TRUE, value |-> v]

\* assert(false); return 0;
AssertFalseReturnZero ==
    [asserted |-> TRUE, returned |-> ndebug, value |-> ScalarZero]

\* slip: the parity test is missing
PolesValid_AnyParity(p) == p >= 2

\* (num_poles >= 2) && (num_poles % 2 == 0)
PolesValid(p) == p >= 2 /\ p % 2 = 0

(***************************************************************************)
(* convertFluxLinkageToKV                                                  *)
(***************************************************************************)
convertFluxLinkageToKV(flux_linkage, poles) ==
    IF ScalarPositive(flux_linkage) /\ PolesValid(poles)
    THEN Returned(ConstOverProduct(flux_linkage, poles))
    ELSE AssertFalseReturnZero

(***************************************************************************)
(* convertKVToFluxLinkage                                                  *)
(***************************************************************************)
\* slip: the pole count is left out of the product
KVToFluxLinkageValue_NoPoles(kv, poles) == ConstOverProduct(kv, 1)

\* (20.0F * SquareRootOf3) / (math::Pi * kv * Scalar(num_poles))
KVToFluxLinkageValue(kv, poles) == ConstOverProduct(kv, poles)

convertKVToFluxLinkage(kv, poles) ==
    IF ScalarPositive(kv) /\ PolesValid(poles)
    THEN Returned(KVToFluxLinkageValue(kv, poles))
    ELSE AssertFalseReturnZero

(***************************************************************************)
(* convertRotationRateElectricalToMechanical                               *)
(***************************************************************************)
convertRotationRateElectricalToMechanical(rate, poles) ==
    IF PolesValid(poles)
    THEN Returned(ScalarOverUnsigned(rate, poles \div 2))
    ELSE AssertFalseReturnZero

(***************************************************************************)
(* Calls of the conversions.                                               *)
(***************************************************************************)
ConvertFluxLinkageToKV ==
    /\ conv_call = "none"
    /\ conv_ret' = <<convertFluxLinkageToKV(conv_arg, num_poles)>>
    /\ conv_call' = "convertFluxLinkageToKV"
    /\ UNCHANGED <<ndebug, conv_arg, num_poles, conv_back>>
    /\ UNCHANGED <<taskVars, boardVars, counterVars, bootVars>>

ConvertKVToFluxLinkage ==
    /\ conv_call = "none"
    /\ conv_ret' = <<convertKVToFluxLinkage(conv_arg, num_poles)>>
    /\ conv_call' = "convertKVToFluxLinkage"
    /\ UNCHANGED <<ndebug, conv_arg, num_poles, conv_back>>
    /\ UNCHANGED <<taskVars, boardVars, counterVars, bootVars>>

ConvertRotationRateElectricalToMechanical ==
    /\ conv_call = "none"
    /\ conv_ret' = <<convertRotationRateElectricalToMechanical(conv_arg, num_poles)>>
    /\ conv_call' = "convertRotationRateElectricalToMechanical"
    /\ UNCHANGED <<ndebug, conv_arg, num_poles, conv_back>>
    /\ UNCHANGED <<taskVars, boardVars, counterVars, bootVars>>

\* the value a conversion returned is passed to the opposite conversion,
\* with the same pole count
ConvertBack ==
    /\ conv_call \in {"convertFluxLinkageToKV", "convertKVToFluxLinkage"}
    /\ conv_back = <<>>
    /\ conv_ret[1].returned
    /\ conv_back' = <<IF conv_call = "convertFluxLinkageToKV"
                      THEN convertKVToFluxLinkage(conv_ret[1].value, num_poles)
                      ELSE convertFluxLinkageToKV(conv_ret[1].value, num_poles)>>
    /\ UNCHANGED <<ndebug, conv_arg, num_poles, conv_call, conv_ret>>
    /\ UNCHANGED <<taskVars, boardVars, counterVars, bootVars>>

ScalarInputs ==
    {Scalar(n, d, 0) : n \in {-1, 0, 1, 3, 5, 1000}, d \in {1, 2}}

PoleInputs == {0, 1, 2, 3, 4, 7, 8, 14}

ConversionState(build, x, poles) ==
    /\ ndebug = build
    /\ conv_arg = x
    /\ num_poles = poles
    /\ conv_call = "none"
    /\ conv_ret = <<>>
    /\ conv_back = <<>>

(***************************************************************************)
(* The boot sequence: board::init, the boardInit() that halInit() runs,    *)
(* initLEDPWM and die.  Each function is the list of its statements; a     *)
(* statement is [line, op, regs, bits], registers being sets of bit names. *)
(***************************************************************************)
Ins(line, op, regs, bits) ==
    [line |-> line, op |-> op, regs |-> regs, bits |-> bits]

CANResetBits == {"CAN1RST", "CAN2RST"}

CANPendingIRQs ==
    {"CAN1_RX0_IRQn", "CAN1_RX1_IRQn", "CAN1_TX_IRQn", "CAN1_SCE_IRQn",
     "CAN2_RX0_IRQn", "CAN2_RX1_IRQn", "CAN2_TX_IRQn", "CAN2_SCE_IRQn"}

TIM3Registers ==
    {"TIM3->ARR", "TIM3->CR1", "TIM3->CR2", "TIM3->CCMR1", "TIM3->CCMR2",
     "TIM3->CCER", "TIM3->EGR"}

RegisterNames ==
    {"RCC->APB1ENR", "RCC->APB1RSTR", "CAN1->IER", "CAN2->IER", "CAN1->MCR",
     "CAN2->MCR", "NVIC->ICPR"} \cup TIM3Registers

\* void boardInit(void)
BoardInitCode ==
    << Ins(247, "lock", {}, {}),
       Ins(254, "|=", {"RCC->APB1RSTR"}, CANResetBits),
       Ins(255, "&=~", {"RCC->APB1RSTR"}, CANResetBits),
       Ins(257, "=", {"CAN1->IER", "CAN2->IER"}, {}),
       Ins(258, "=", {"CAN1->MCR", "CAN2->MCR"}, {"SLEEP", "RESET"}),
       Ins(260, "NVIC_ClearPendingIRQ", {"NVIC->ICPR"}, {"CAN1_RX0_IRQn"}),
       Ins(261, "NVIC_ClearPendingIRQ", {"NVIC->ICPR"}, {"CAN1_RX1_IRQn"}),
       Ins(262, "NVIC_ClearPendingIRQ", {"NVIC->ICPR"}, {"CAN1_TX_IRQn"}),
       Ins(263, "NVIC_ClearPendingIRQ", {"NVIC->ICPR"}, {"CAN1_SCE_IRQn"}),
       Ins(265, "NVIC_ClearPendingIRQ", {"NVIC->ICPR"}, {"CAN2_RX0_IRQn"}),
       Ins(266, "NVIC_ClearPendingIRQ", {"NVIC->ICPR"}, {"CAN2_RX1_IRQn"}),
       Ins(267, "NVIC_ClearPendingIRQ", {"NVIC->ICPR"}, {"CAN2_TX_IRQn"}),
       Ins(268, "NVIC_ClearPendingIRQ", {"NVIC->ICPR"}, {"CAN2_SCE_IRQn"}),
       Ins(270, "unlock", {}, {}) >>

\* slip: the critical section spans the whole function
InitLEDPWMCode_LockedThroughout ==
    << Ins(96, "lock", {}, {}),
       Ins(98, "|=", {"RCC->APB1ENR"}, {"TIM3EN"}),
       Ins(99, "|=", {"RCC->APB1RSTR"}, {"TIM3RST"}),
       Ins(100, "&=~", {"RCC->APB1RSTR"}, {"TIM3RST"}),
       Ins(103, "=", {"TIM3->ARR"}, {"0xFFFF"}),
       Ins(104, "=", {"TIM3->CR1"}, {}),
       Ins(105, "=", {"TIM3->CR2"}, {}),
       Ins(108, "=", {"TIM3->CCMR1"}, {"OC2M_2", "OC2M_1"}),
       Ins(109, "=", {"TIM3->CCMR2"}, {"OC3M_2", "OC3M_1", "OC4M_2", "OC4M_1"}),
       Ins(113, "=", {"TIM3->CCER"}, {"CC4E", "CC3E", "CC2E", "CC4P", "CC3P", "CC2P"}),
       Ins(117, "=", {"TIM3->EGR"}, {"UG", "COMG"}),
       Ins(118, "|=", {"TIM3->CR1"}, {"CEN"}),
       Ins(119, "unlock", {}, {}) >>

\* static void initLEDPWM()
InitLEDPWMCode ==
    << Ins(96, "lock", {}, {}),
       Ins(98, "|=", {"RCC->APB1ENR"}, {"TIM3EN"}),
       Ins(99, "|=", {"RCC->APB1RSTR"}, {"TIM3RST"}),
       Ins(100, "&=~", {"RCC->APB1RSTR"}, {"TIM3RST"}),
       Ins(101, "unlock", {}, {}),
       Ins(103, "=", {"TIM3->ARR"}, {"0xFFFF"}),
       Ins(104, "=", {"TIM3->CR1"}, {}),
       Ins(105, "=", {"TIM3->CR2"}, {}),
       Ins(108, "=", {"TIM3->CCMR1"}, {"OC2M_2", "OC2M_1"}),
       Ins(109, "=", {"TIM3->CCMR2"}, {"OC3M_2", "OC3M_1", "OC4M_2", "OC4M_1"}),
       Ins(113, "=", {"TIM3->CCER"}, {"CC4E", "CC3E", "CC2E", "CC4P", "CC3P", "CC2P"}),
       Ins(117, "=", {"TIM3->EGR"}, {"UG", "COMG"}),
       Ins(118, "|=", {"TIM3->CR1"}, {"CEN"}) >>

\* os::watchdog::Timer init(unsigned watchdog_timeout_msec)
InitCode ==
    << Ins(128, "halInit", {}, {}),
       Ins(129, "chSysInit", {}, {}),
       Ins(134, "sdStart", {}, {}),
       Ins(139, "os::watchdog::init", {}, {}),
       Ins(141, "wdt.startMSec", {}, {}),
       Ins(146, "initLEDPWM", {}, {}),
       Ins(151, "os::config::init", {}, {}),
       Ins(152, "if", {}, {}),
       Ins(160, "os::lowsyslog", {}, {}),
       Ins(163, "return", {}, {}) >>

At(fn, at) == [fn |-> fn, at |-> at]

\* the value a register holds after the statement
Write(value, ins) ==
    CASE ins.op = "|=" -> value \cup ins.bits
      [] ins.op = "&=~" -> value \ ins.bits
      [] ins.op = "=" -> ins.bits
      [] ins.op = "NVIC_ClearPendingIRQ" -> value \ ins.bits
      [] OTHER -> value

\* os::CriticalSectionLocker: the constructor enters the critical section,
\* the destructor at the end of the enclosing scope leaves it
Locker(depth, ins) ==
    CASE ins.op = "lock" -> depth + 1
      [] ins.op = "unlock" -> depth - 1
      [] OTHER -> depth

\* slip: a zero result is taken for a failure as well
ConfigInitFailed_OrZero(res) == res <= 0

\* if (config_init_res < 0)
ConfigInitFailed(res) == res < 0

\* one statement of function fn is executed and control passes to next
Execute(fn, ins, next) ==
    /\ boot_trace' = Append(boot_trace,
                            [fn |-> fn, ins |-> ins, locked |-> cs_depth > 0])
    /\ cs_depth' = Locker(cs_depth, ins)
    /\ periph' = [r \in DOMAIN periph |->
                    IF r \in ins.regs THEN Write(periph[r], ins) ELSE periph[r]]
    /\ wdt' = CASE ins.op = "os::watchdog::init" -> [wdt EXCEPT !.initialised = TRUE]
                [] ins.op = "wdt.startMSec" ->
                     [wdt EXCEPT !.started = TRUE,
                                 !.timeout_msec = watchdog_timeout_msec]
                [] OTHER -> wdt
    /\ config_init_res' = IF ins.op = "os::config::init" THEN <<config_result>>
                          ELSE config_init_res
    /\ die_reason' = IF ins.op = "if" /\ ConfigInitFailed(config_init_res[1])
                     THEN <<config_init_res[1]>>
                     ELSE die_reason
    /\ init_res' = IF ins.op = "return" THEN <<wdt>> ELSE init_res
    /\ boot_pc' = next
    /\ UNCHANGED <<watchdog_timeout_msec, config_result>>
    /\ UNCHANGED <<taskVars, boardVars, counterVars, convVars>>

\* board::init; halInit() runs boardInit(), the return statement ends the boot
InitStep ==
    /\ boot_pc.fn = "init"
    /\ LET ins == InitCode[boot_pc.at]
       IN  Execute("init", ins,
               CASE ins.op = "halInit" -> At("boardInit", 1)
                 [] ins.op = "initLEDPWM" -> At("initLEDPWM", 1)
                 [] ins.op = "if" ->
                      IF ConfigInitFailed(config_init_res[1])
                      THEN At("die", 1)
                      ELSE At("init", boot_pc.at + 1)
                 [] ins.op = "return" -> At("returned", 1)
                 [] OTHER -> At("init", boot_pc.at + 1))

\* boardInit; on return control is back in init, after halInit()
BoardInitStep ==
    /\ boot_pc.fn = "boardInit"
    /\ Execute("boardInit", BoardInitCode[boot_pc.at],
               IF boot_pc.at = Len(BoardInitCode)
               THEN At("init", 2)
               ELSE At("boardInit", boot_pc.at + 1))

\* initLEDPWM; on return control is back in init, after the call
InitLEDPWMStep ==
    /\ boot_pc.fn = "initLEDPWM"
    /\ Execute("initLEDPWM", InitLEDPWMCode[boot_pc.at],
               IF boot_pc.at = Len(InitLEDPWMCode)
               THEN At("init", 7)
               ELSE At("initLEDPWM", boot_pc.at + 1))

\* die: chSysHalt(os::intToString(reason)), then while (1) { }
Die ==
    /\ boot_pc.fn = "die"
    /\ Execute("die", Ins(169, "chSysHalt", {}, {}), At("halted", 1))

\* what the bootloader may leave behind: nothing, or the CAN controller
\* enabled with interrupt requests pending
BootloaderStates ==
    { [r \in RegisterNames |-> {}],
      [r \in RegisterNames |->
         CASE r = "CAN1->IER" -> {"FMPIE0", "TMEIE"}
           [] r = "NVIC->ICPR" -> {"CAN1_RX0_IRQn", "CAN2_TX_IRQn"}
           [] OTHER -> {}],
      [r \in RegisterNames |->
         CASE r \in {"CAN1->IER", "CAN2->IER"} -> {"FMPIE0", "ERRIE"}
           [] r = "NVIC->ICPR" -> CANPendingIRQs
           [] r = "RCC->APB1RSTR" -> {"CAN2RST"}
           [] OTHER -> {}] }

WatchdogTimeouts == {1, 1000, 10000}

ConfigResults == {-32768, -1, 0, 1, 7}

BootState(registers, timeout, res) ==
    /\ boot_pc = At("init", 1)
    /\ cs_depth = 0
    /\ boot_trace = <<>>
    /\ periph = registers
    /\ wdt = [initialised |-> FALSE, started |-> FALSE, timeout_msec |-> 0]
    /\ watchdog_timeout_msec = timeout
    /\ config_result = res
    /\ config_init_res = <<>>
    /\ init_res = <<>>
    /\ die_reason = <<>>

BootIdle == BootState([r \in RegisterNames |-> {}], 1000, 0)

(***************************************************************************)
(* The board-side state is idle while a task is exercised.                 *)
(***************************************************************************)
BoardState(p, storage) ==
    /\ params = p
    /\ valid_res = <<>>
    /\ DeviceSignatureStorage = storage
    /\ out_sign = [i \in 1..SignatureSize |-> 170]
    /\ sign_res = <<>>

BoardIdle ==
    BoardState([controller |-> TRUE, motor |-> TRUE, observer |-> TRUE, pwm |-> TRUE],
               [i \in 1..SignatureSize |-> 255])

ConversionIdle == ConversionState(TRUE, ScalarZero, 0)

UtilIdle ==
    /\ EventCounter
    /\ ConversionIdle
    /\ BootIdle

Init ==
    /\ \E pwm_period \in PWMPeriods, f \in FrequencyInputs, d \in DurationInputs :
        BeepingTask(pwm_period, f, d)
    /\ BoardIdle
    /\ UtilIdle

Next == OnNextPWMPeriod \/ OnMainIRQ

Spec == Init /\ [][Next]_vars

(***************************************************************************)
(* The same task with its phase counter about to wrap: the arithmetic of   *)
(* next_phase_index_++ % 3 at the top of the unsigned range.               *)
(***************************************************************************)
WrapIndices ==
    {<<UIntLimb - 1, UIntLimb - k>> : k \in 1..3}

InitWrap ==
    /\ \E pwm_period \in {5, 50}, f \in {1000, 15000}, d \in {100, 300},
          index \in WrapIndices :
        TaskState(pwm_period, f, d, index)
    /\ BoardIdle
    /\ UtilIdle

SpecWrap == InitWrap /\ [][Next]_vars

(***************************************************************************)
(* The board operations on any parameter set and any signature region.     *)
(***************************************************************************)
InitBoard ==
    /\ BeepingTask(50, 1000, 300)
    /\ \E p \in ParameterSets, storage \in Signatures : BoardState(p, storage)
    /\ UtilIdle

NextBoard == IsValidCall \/ TryReadDeviceSignature

SpecBoard == InitBoard /\ [][NextBoard]_vars

(***************************************************************************)
(* An EventCounter under any sequence of its three operations.             *)
(***************************************************************************)
InitCounter ==
    /\ BeepingTask(50, 1000, 300)
    /\ BoardIdle
    /\ UtilIdle

NextCounter == Increment \/ Get \/ ToStringCall

SpecCounter == InitCounter /\ [][NextCounter]_vars

(***************************************************************************)
(* The unit conversions on any argument, pole count and build.             *)
(***************************************************************************)
InitConversion ==
    /\ BeepingTask(50, 1000, 300)
    /\ BoardIdle
    /\ EventCounter
    /\ \E build \in BOOLEAN, x \in ScalarInputs, poles \in PoleInputs :
        ConversionState(build, x, poles)
    /\ BootIdle

NextConversion ==
    \/ ConvertFluxLinkageToKV
    \/ ConvertKVToFluxLinkage
    \/ ConvertRotationRateElectricalToMechanical
    \/ ConvertBack

SpecConversion == InitConversion /\ [][NextConversion]_vars

(***************************************************************************)
(* The boot sequence from any bootloader state, with any watchdog timeout  *)
(* and any outcome of the configuration initialization.                    *)
(***************************************************************************)
InitBoot ==
    /\ BeepingTask(50, 1000, 300)
    /\ BoardIdle
    /\ EventCounter
    /\ ConversionIdle
    /\ \E registers \in BootloaderStates, timeout \in WatchdogTimeouts,
          res \in ConfigResults :
        BootState(registers, timeout, res)

NextBoot == InitStep \/ BoardInitStep \/ InitLEDPWMStep \/ Die

SpecBoot == InitBoot /\ [][NextBoot]_vars

(***************************************************************************)
(* Quantities the claims about BeepingTask are stated in.                  *)
(***************************************************************************)
\* T: the PWM period of the board
PeriodT == context_.board.pwm.period

\* D: the requested duration clamped to [0, 3] s
ClampedD ==
    IF duration < 0 THEN 0
    ELSE IF duration > MaxDurationSec * TicksPerSecond THEN MaxDurationSec * TicksPerSecond
    ELSE duration

\* the requested frequency clamped to [100, 15000] Hz
ClampedF ==
    IF frequency < MinFrequencyHz THEN MinFrequencyHz
    ELSE IF frequency > MaxFrequencyHz THEN MaxFrequencyHz
    ELSE frequency

\* sum of the PWM periods elapsed in the calls before the last onNextPWMPeriod
ElapsedBefore == (calls - 1) * PeriodT

\* sum of the PWM periods elapsed in all onNextPWMPeriod calls made so far
Elapsed == calls * PeriodT

\* C1 (as claimed): onNextPWMPeriod returns driver_active = true exactly on
\* the calls made while the PWM time elapsed in earlier calls is below D, and
\* false from the first call made once that time has reached D.
C1_ActiveExactlyBelowDuration ==
    calls > 0 => (driver_active <=> ElapsedBefore < ClampedD)

\* C2: whatever the state of the task, onMainIRQ with power_ok = false
\* returns failure with exit code 1.
C2_PowerBadFails ==
    (last_call = "irq" /\ ~hw_status.power_ok)
        => result = [kind |-> "failure", exit_code |-> 1]

C2_Witness ==
    /\ last_call = "irq"
    /\ ~hw_status.power_ok
    /\ remaining_duration_ < 0
    /\ ~driver_active
    /\ calls > 1
    /\ result.kind = "failure"

\* C3: with power_ok = true, onMainIRQ returns success exactly when the
\* remaining duration is <= 0 and in-progress exactly when it is > 0; so it
\* returns in-progress while the elapsed PWM time is below D and success
\* once the elapsed PWM time has reached D.
C3_SuccessIffExhausted ==
    (last_call = "irq" /\ hw_status.power_ok)
        => /\ result.kind \in {"success", "in_progress"}
           /\ result.kind = "success" <=> remaining_duration_ <= 0
           /\ result.kind = "in_progress" <=> remaining_duration_ > 0
           /\ result.kind = "in_progress" <=> Elapsed < ClampedD
           /\ result.kind = "success" <=> Elapsed >= ClampedD

C3_Witness ==
    /\ last_call = "irq"
    /\ hw_status.power_ok
    /\ "in_progress" \in earlier
    /\ result.kind = "success"
    /\ ClampedD > 0
    /\ Elapsed = ClampedD
    /\ remaining_duration_ = 0

\* C4 (as claimed): once onMainIRQ has returned success or failure, every
\* later onMainIRQ call returns that same kind.
C4_TerminalLatched ==
    last_call = "irq"
        => \A k \in earlier \cap {"success", "failure"} : result.kind = k

\* C4 (amended): once onMainIRQ has returned success, no later onMainIRQ call
\* returns in-progress: it returns success when power_ok is true and
\* failure(1) when it is false.
C4_SuccessNeverBackInProgress ==
    (last_call = "irq" /\ "success" \in earlier)
        => /\ result.kind # "in_progress"
           /\ result = IF hw_status.power_ok
                       THEN [kind |-> "success", exit_code |-> 0]
                       ELSE [kind |-> "failure", exit_code |-> 1]

C4_Witness ==
    /\ last_call = "irq"
    /\ earlier = {"in_progress", "success", "failure"}
    /\ result.kind = "success"
    /\ remaining_duration_ < 0

\* C5: a call that emits a pulse returns a vector with one component 1 and
\* the other two 0, with driver_active = true, the k-th pulse of the task
\* being on phase (k - 1) mod 3; a call that emits no pulse returns the
\* zero vector.
C5_RoundRobinPulses ==
    calls > 0 =>
        IF pulsed
        THEN /\ driver_active
             /\ pulses > 0
             /\ \A i \in 0..2 : output[i] = IF i = (pulses - 1) % 3 THEN 1 ELSE 0
        ELSE \A i \in 0..2 : output[i] = 0

C5_Witness ==
    /\ pulsed
    /\ pulses = 5
    /\ output[1] = 1
    /\ output[0] = 0
    /\ output[2] = 0
    /\ driver_active

\* C6: when the excitation period is n PWM periods, the calls that emit a
\* pulse are the n-th, 2n-th, 3n-th, ... for as long as the task is active,
\* and driver_active is true on every call made before D has elapsed.
C6_PulseEveryNthCall ==
    (calls > 0 /\ excitation_period_ % PeriodT = 0)
        => LET n == excitation_period_ \div PeriodT
           IN  /\ pulsed <=> (driver_active /\ calls % n = 0)
               /\ driver_active => pulses = calls \div n
               /\ ElapsedBefore < ClampedD => driver_active

C6_Witness ==
    /\ frequency = 1000
    /\ PeriodT = 5
    /\ excitation_period_ = 3 * PeriodT
    /\ calls = 9
    /\ pulsed
    /\ pulses = 3
    /\ driver_active

\* C8: the excitation period is 1 / clamp(f, 100, 15000), the initial
\* remaining duration is clamp(d, 0, 3 s), the initial countdown is the
\* excitation period, and no call changes the excitation period.
C8_ClampedAtConstruction ==
    /\ excitation_period_ * ClampedF = TicksPerSecond
    /\ calls = 0 => /\ remaining_duration_ = ClampedD
                    /\ time_to_next_excitation_ = excitation_period_

C8_Witness ==
    /\ frequency < MinFrequencyHz
    /\ duration > MaxDurationSec * TicksPerSecond
    /\ excitation_period_ * frequency # TicksPerSecond
    /\ calls > 2
    /\ last_call = "irq"

\* C7 (as claimed): isValid() returns true if and only if each of the four
\* parameter groups (controller, motor, observer, pwm) is valid.
C7_ValidIffAllGroupsValid ==
    valid_res # <<>>
        => (valid_res[1] <=>
              (params.controller /\ params.motor /\ params.observer /\ params.pwm))

C10_SignaturePresentIffPayload ==
    sign_res # <<>>
        => /\ out_sign = DeviceSignatureStorage
           /\ sign_res[1] <=> (\E i \in 1..SignatureSize :
                                DeviceSignatureStorage[i] \notin {0, 255})

C10_Witness ==
    /\ sign_res = <<FALSE>>
    /\ out_sign = DeviceSignatureStorage
    /\ \E i \in 1..SignatureSize : DeviceSignatureStorage[i] = 255
    /\ \E i \in 1..SignatureSize : DeviceSignatureStorage[i] = 0

\* C16: once onMainIRQ has returned success, at most one further
\* onNextPWMPeriod call returns driver_active = true (and emits a pulse);
\* from the second call after the success on, every call returns the zero
\* vector with driver_active = false.
C16_AtMostOneActiveAfterSuccess ==
    since_success = 2
        => /\ ~driver_active
           /\ ~pulsed
           /\ \A i \in 0..2 : output[i] = 0

C16_Witness ==
    /\ since_success = 1
    /\ last_call = "pwm"
    /\ driver_active
    /\ pulsed
    /\ remaining_duration_ < 0

\* C17: the remaining duration never increases and stays within [-T, D];
\* once onNextPWMPeriod has returned driver_active = false, every later
\* call returns the zero vector with driver_active = false and leaves the
\* remaining duration, the countdown and the phase index unchanged.
C17_ReleasedIsAbsorbing ==
    /\ [](/\ -PeriodT <= remaining_duration_
          /\ remaining_duration_ <= ClampedD)
    /\ [][remaining_duration_' <= remaining_duration_]_vars
    /\ [][(calls > 0 /\ ~driver_active /\ calls' = calls + 1)
            => /\ ~driver_active'
               /\ \A i \in 0..2 : output'[i] = 0
               /\ UNCHANGED <<remaining_duration_, time_to_next_excitation_,
                              next_phase_index_>>]_vars

C17_Witness ==
    /\ last_call = "pwm"
    /\ ~driver_active
    /\ remaining_duration_ = -PeriodT
    /\ ClampedD > 0
    /\ Elapsed >= ClampedD + 4 * PeriodT

\* C18: when 0 < T <= E, the countdown lies in (0, E] after every call; it
\* grows only on a call that emits a pulse, by E - T; and two successive
\* pulses are at least E - T apart.
C18_CountdownWithinPeriod ==
    /\ [](PeriodT <= excitation_period_
            => /\ 0 < time_to_next_excitation_
               /\ time_to_next_excitation_ <= excitation_period_
               /\ pulses >= 2 => (pulse_call - prev_pulse_call) * PeriodT
                                    >= excitation_period_ - PeriodT)
    /\ [][(/\ PeriodT <= excitation_period_
           /\ time_to_next_excitation_' > time_to_next_excitation_)
            => /\ pulsed'
               /\ calls' = calls + 1
               /\ time_to_next_excitation_' =
                      time_to_next_excitation_ - PeriodT + excitation_period_]_vars

C18_Witness ==
    /\ PeriodT < excitation_period_
    /\ excitation_period_ % PeriodT # 0
    /\ pulses >= 3
    /\ pulsed
    /\ (pulse_call - prev_pulse_call) * PeriodT < excitation_period_

\* C19: onMainIRQ leaves the remaining duration, the countdown, the phase
\* index, the excitation period, the context and the parameter set
\* unchanged, and its result is determined by hw_status.power_ok and the
\* remaining duration alone, whatever the period argument.
C19_MainIRQIsObserver ==
    [][last_call' = "irq"
        => /\ UNCHANGED <<remaining_duration_, time_to_next_excitation_,
                          next_phase_index_, excitation_period_, context_,
                          params, output, driver_active>>
           /\ result' = IF ~hw_status'.power_ok
                        THEN [kind |-> "failure", exit_code |-> 1]
                        ELSE IF remaining_duration_ <= 0
                        THEN [kind |-> "success", exit_code |-> 0]
                        ELSE [kind |-> "in_progress", exit_code |-> 0]]_vars

C19_Witness ==
    /\ last_call = "irq"
    /\ main_period = 150
    /\ calls > 2
    /\ remaining_duration_ > 0
    /\ remaining_duration_ < 150
    /\ result.kind = "in_progress"
    /\ "in_progress" \in earlier

\* the decimal digits of a natural number, most significant first
RECURSIVE DigitsOfNat(_)
DigitsOfNat(n) ==
    IF n < 10 THEN <<n>> ELSE Append(DigitsOfNat(n \div 10), n % 10)

\* a natural number below 2^16 as a std::uint64_t
U64OfSmall(n) == [i \in 1..U64Limbs |-> IF i = U64Limbs THEN n ELSE 0]

\* C12: starting from 0, the counter holds the number of increment() calls
\* made so far, get() returns that number and toString() renders it; each
\* increment() raises the value by exactly 1, and get() and toString()
\* leave it unchanged.
C12_CountsIncrements ==
    /\ [](/\ cnt_ = U64OfSmall(increments)
          /\ counter_call = "get" => get_res = <<U64OfSmall(increments)>>
          /\ counter_call = "toString" => str_res = <<DigitsOfNat(increments)>>)
    /\ [][IF counter_call' = "increment" /\ increments' # increments
          THEN cnt_'[U64Limbs] = cnt_[U64Limbs] + 1
          ELSE cnt_' = cnt_]_vars

C12_Witness ==
    /\ increments = 12
    /\ counter_call = "toString"
    /\ str_res = <<(<<1, 2>>)>>
    /\ get_res = <<U64OfSmall(11)>>

\* the pole count is odd or less than 2
BadPoles == num_poles < 2 \/ num_poles % 2 = 1

\* the call took the assertion branch, and where it returned it returned 0
TookAssertionBranch(outcome) ==
    /\ outcome.asserted
    /\ outcome.returned = ndebug
    /\ outcome.returned => outcome.value = [n |-> 0, d |-> 1, k |-> 0]

\* C13: for a pole count that is odd or less than 2 every conversion takes
\* the assertion branch and returns zero, whatever the other argument; the
\* two flux/KV conversions also do so for a non-positive argument; for valid
\* arguments no conversion takes the assertion branch.
C13_BadArgumentsAssertAndReturnZero ==
    conv_call # "none" =>
        LET bad == IF conv_call = "convertRotationRateElectricalToMechanical"
                   THEN BadPoles
                   ELSE BadPoles \/ conv_arg.n <= 0
        IN  IF bad
            THEN TookAssertionBranch(conv_ret[1])
            ELSE ~conv_ret[1].asserted /\ conv_ret[1].returned

C13_Witness ==
    /\ conv_call = "convertRotationRateElectricalToMechanical"
    /\ num_poles = 7
    /\ conv_arg.n = 1000
    /\ ndebug
    /\ conv_ret[1].asserted
    /\ conv_ret[1].returned
    /\ conv_ret[1].value.n = 0

\* C14: for an argument > 0 and an even pole count >= 2, converting a flux
\* linkage to KV and back, or a KV to flux linkage and back, with the same
\* pole count returns the argument.
C14_RoundTrip ==
    (conv_back # <<>> /\ conv_arg.n > 0 /\ ~BadPoles)
        => /\ ~conv_back[1].asserted
           /\ conv_back[1].returned
           /\ conv_back[1].value = conv_arg

C14_Witness ==
    /\ conv_call = "convertFluxLinkageToKV"
    /\ conv_arg = [n |-> 3, d |-> 2, k |-> 0]
    /\ num_poles = 14
    /\ conv_ret[1].value = [n |-> 1, d |-> 21, k |-> 1]
    /\ conv_back # <<>>
    /\ conv_back[1].value = conv_arg

(***************************************************************************)
(* Quantities the claims about the boot sequence are stated in.            *)
(***************************************************************************)
\* the statements of function fn executed so far, in order
StatementsOf(fn) == SelectSeq(boot_trace, LAMBDA e : e.fn = fn)

ClaimedInitOrder ==
    <<"halInit", "chSysInit", "sdStart", "os::watchdog::init", "wdt.startMSec",
      "initLEDPWM", "os::config::init">>

ConfigInitRan == config_init_res # <<>>

\* the place of a boardInit statement in the claimed sequence
BoardInitStage(ins) ==
    CASE ins.op = "lock" -> 1
      [] ins.op = "|=" /\ ins.regs = {"RCC->APB1RSTR"} /\ ins.bits = CANResetBits -> 2
      [] ins.op = "&=~" /\ ins.regs = {"RCC->APB1RSTR"} /\ ins.bits = CANResetBits -> 3
      [] ins.op = "=" /\ ins.regs = {"CAN1->IER", "CAN2->IER"} /\ ins.bits = {} -> 4
      [] ins.op = "=" /\ ins.regs = {"CAN1->MCR", "CAN2->MCR"} /\ "RESET" \in ins.bits -> 5
      [] ins.op = "NVIC_ClearPendingIRQ" -> 6
      [] ins.op = "unlock" -> 7
      [] OTHER -> 0

\* the place of an initLEDPWM statement in the claimed sequence
LEDStage(ins) ==
    CASE ins.op = "lock" -> 1
      [] ins.op = "|=" /\ ins.regs = {"RCC->APB1ENR"} /\ ins.bits = {"TIM3EN"} -> 2
      [] ins.op = "|=" /\ ins.regs = {"RCC->APB1RSTR"} /\ ins.bits = {"TIM3RST"} -> 3
      [] ins.op = "&=~" /\ ins.regs = {"RCC->APB1RSTR"} /\ ins.bits = {"TIM3RST"} -> 4
      [] ins.op = "unlock" -> 5
      [] ins.regs \subseteq TIM3Registers /\ ins.regs # {} -> 6
      [] OTHER -> 0

\* C11: board::init runs OS init, serial start, watchdog init and start with
\* the given timeout, indicator PWM init and configuration init in that
\* order; the watchdog is armed before configuration init runs; a negative
\* configuration result leads to die with that code, after which the system
\* stays halted and init returns nothing; init returns the started watchdog
\* handle only after a non-negative configuration result.
C11_InitOrderAndFatalConfigFailure ==
    /\ [](LET done == StatementsOf("init")
          IN  /\ \A i \in 1..Len(done) :
                    i <= Len(ClaimedInitOrder) => done[i].ins.op = ClaimedInitOrder[i]
              /\ wdt.started =>
                    wdt.initialised /\ wdt.timeout_msec = watchdog_timeout_msec
              /\ ConfigInitRan =>
                    /\ wdt.started
                    /\ "CEN" \in periph["TIM3->CR1"]
                    /\ config_init_res[1] = config_result
              /\ Len(done) > Len(ClaimedInitOrder) =>
                    (config_init_res[1] < 0 <=> die_reason # <<>>)
              /\ die_reason # <<>> =>
                    /\ ConfigInitRan
                    /\ config_init_res[1] < 0
                    /\ die_reason = config_init_res
                    /\ init_res = <<>>
                    /\ boot_pc.fn \in {"die", "halted"}
              /\ init_res # <<>> =>
                    /\ ConfigInitRan
                    /\ config_init_res[1] >= 0
                    /\ die_reason = <<>>
                    /\ init_res[1] = [initialised |-> TRUE, started |-> TRUE,
                                      timeout_msec |-> watchdog_timeout_msec])
    /\ [][die_reason # <<>> => boot_pc'.fn = "halted" /\ init_res' = <<>>]_vars

C11_Witness ==
    /\ boot_pc.fn = "halted"
    /\ die_reason = <<-1>>
    /\ wdt.started
    /\ init_res = <<>>

\* C15: boardInit runs without any condition and wholly inside one critical
\* section: the CAN reset bits are asserted, then de-asserted, the CAN
\* interrupt enables cleared, the software reset issued and the eight CAN
\* IRQs' pending flags cleared, all while the section is held, and the
\* section is released once, at the return.  initLEDPWM enables the TIM3
\* clock and asserts and de-asserts the TIM3 reset inside a critical section
\* and configures the TIM3 registers after leaving it.  Neither function
\* returns with the critical section held.
C15_BootCriticalSections ==
    LET b == StatementsOf("boardInit")
        l == StatementsOf("initLEDPWM")
        Released(s) == \E i \in 1..Len(s) : s[i].ins.op = "unlock"
    IN  /\ cs_depth \in {0, 1}
        /\ boot_pc.fn \notin {"boardInit", "initLEDPWM"} => cs_depth = 0
        /\ boot_pc.fn = "boardInit" => ENABLED BoardInitStep
        /\ \A i \in 1..Len(b) :
              /\ BoardInitStage(b[i].ins) # 0
              /\ b[i].ins.op # "lock" => b[i].locked
              /\ \A j \in (i + 1)..Len(b) :
                    \/ BoardInitStage(b[i].ins) < BoardInitStage(b[j].ins)
                    \/ /\ b[i].ins.op = "NVIC_ClearPendingIRQ"
                       /\ b[j].ins.op = "NVIC_ClearPendingIRQ"
        /\ Released(b) =>
              /\ {BoardInitStage(b[i].ins) : i \in 1..Len(b)} = 1..7
              /\ UNION {b[i].ins.bits : i \in {j \in 1..Len(b) :
                            b[j].ins.op = "NVIC_ClearPendingIRQ"}} = CANPendingIRQs
              /\ periph["NVIC->ICPR"] \cap CANPendingIRQs = {}
              /\ periph["RCC->APB1RSTR"] \cap CANResetBits = {}
              /\ periph["CAN1->IER"] = {} /\ periph["CAN2->IER"] = {}
              /\ boot_pc.fn # "boardInit"
        /\ \A i \in 1..Len(l) :
              /\ LEDStage(l[i].ins) # 0
              /\ LEDStage(l[i].ins) \in 2..5 => l[i].locked
              /\ LEDStage(l[i].ins) = 6 => ~l[i].locked
              /\ \A j \in (i + 1)..Len(l) :
                    \/ LEDStage(l[i].ins) < LEDStage(l[j].ins)
                    \/ LEDStage(l[i].ins) = 6 /\ LEDStage(l[j].ins) = 6
        /\ (\E i \in 1..Len(l) : LEDStage(l[i].ins) = 6) =>
              {LEDStage(l[i].ins) : i \in 1..Len(l)} = 1..6

C15_Witness ==
    /\ Len(StatementsOf("boardInit")) = Len(BoardInitCode)
    /\ Len(StatementsOf("initLEDPWM")) = Len(InitLEDPWMCode)
    /\ "CEN" \in periph["TIM3->CR1"]
    /\ boot_pc.fn = "init"
    /\ cs_depth = 0

====
